---- MODULE Spec2Model ----
(***************************************************************************)
(* brdoc: validation, formatting and generation of Brazilian CPF and CNPJ  *)
(* documents (brdoc/cpf.py, brdoc/cnpj.py).                                *)
(*                                                                         *)
(* A Python str is a sequence of code points (naturals).  Python indices   *)
(* are 0-based, TLA+ sequences 1-based: s[i] in the code is s[i + 1] here. *)
(* The result of a call is a record [exc, val]: exc is "None" when the     *)
(* call returns val, otherwise the name of the exception it raises.        *)
(***************************************************************************)
EXTENDS Integers, Sequences, FiniteSets, TLC

\* ------------------------------------------------------------------ bounds
\* longest arbitrary input string that is enumerated
MaxLen == 2
\* number of leading payload positions a random draw may vary
VaryPositions == 2

\* -------------------------------------------------------------- characters
\* ord('0'), ord('.'), ord('-'), ord('/'), ord(' '), ord('A')
ZERO == 48
DOT == 46
DASH == 45
SLASH == 47
SPACE == 32
LETTER == 65
\* U+00B2 SUPERSCRIPT TWO: category No, not a decimal digit
SUPER2 == 178
\* U+0660 ARABIC-INDIC DIGIT ZERO and U+FF10 FULLWIDTH DIGIT ZERO:
\* first characters of two non-ASCII runs of category Nd
ARABIC0 == 1632
FULLWIDTH0 == 65296

\* first code points of the runs of ten decimal digits (category Nd)
DecimalRuns == {ZERO, ARABIC0, FULLWIDTH0}

\* the character class \d of a str pattern: any Unicode decimal digit
IsDecimal(c) == \E z \in DecimalRuns : c \in z .. (z + 9)

\* the characters '0'..'9'
AsciiDigits == ZERO .. (ZERO + 9)

\* int(ch) for a one-character string
DecimalValue(c) == c - (CHOOSE z \in DecimalRuns : c \in z .. (z + 9))

Ok(v) == [exc |-> "None", val |-> v]
Raise(e, m) == [exc |-> e, val |-> m]

\* s[i] on a str: IndexError when i is out of range
Index(s, i) == IF i >= 0 /\ i < Len(s) THEN Ok(<<s[i + 1]>>)
               ELSE Raise("IndexError", <<"string index out of range">>)

\* int(s) on a str of one character: ValueError when it is not a decimal
ToInt(s) == IF Len(s) = 1 /\ IsDecimal(s[1]) THEN Ok(DecimalValue(s[1]))
            ELSE Raise("ValueError", <<"invalid literal for int()">>)

\* s[lo:hi], clamped as Python slices are
Slice(s, lo, hi) == SubSeq(s, lo + 1, IF hi < Len(s) THEN hi ELSE Len(s))

\* s * n for a str s of one character
StrMul(s, n) == [i \in 1 .. (n * Len(s)) |-> s[((i - 1) % Len(s)) + 1]]

RECURSIVE SumSeq(_)
SumSeq(s) == IF s = <<>> THEN 0 ELSE s[1] + SumSeq(Tail(s))

\* str(n) for a natural n
RECURSIVE IntToStr(_)
IntToStr(n) == IF n < 10 THEN <<ZERO + n>>
               ELSE IntToStr(n \div 10) \o <<ZERO + (n % 10)>>

\* "".join(map(str, xs))
RECURSIVE JoinStr(_)
JoinStr(xs) == IF xs = <<>> THEN <<>> ELSE IntToStr(xs[1]) \o JoinStr(Tail(xs))

\* sum(int(digits[i]) * w[i] for i in range(n)): the generator stops at the
\* first i whose indexing or conversion raises
SumDigits(digits, n, w) ==
    LET bad == {i \in 0 .. (n - 1) : Index(digits, i).exc # "None"
                                     \/ ToInt(<<digits[i + 1]>>).exc # "None"}
    IN  IF bad = {}
        THEN Ok(SumSeq([i \in 1 .. n |-> DecimalValue(digits[i]) * w[i]]))
        ELSE LET i == CHOOSE j \in bad : \A k \in bad : j <= k
             IN  IF Index(digits, i).exc # "None" THEN Index(digits, i)
                 ELSE ToInt(<<digits[i + 1]>>)

\* hash(str): a function of the characters alone, into a fixed width
RECURSIVE StrHash(_)
StrHash(s) == IF s = <<>> THEN 0
              ELSE (31 * StrHash(SubSeq(s, 1, Len(s) - 1)) + s[Len(s)]) % 65536

\* ------------------------------------------------------------------- CPF
\* re.sub(r"\D", "", cpf)
CPF_clean(cpf) == SelectSeq(cpf, IsDecimal)

CPF_init(cpf) == [kind |-> "CPF", original |-> cpf, digits |-> CPF_clean(cpf)]

CPF_digits(self) == self.digits

\* CPF_formatted with the third group one digit short
CPF_formatted_ShortGroup(self) ==
    IF Len(self.digits) # 11
    THEN Raise("InvalidCPFError",
               <<"CPF must have ", 11, " digits, got ", Len(self.digits)>>)
    ELSE Ok(Slice(self.digits, 0, 3) \o <<DOT>> \o Slice(self.digits, 3, 6)
            \o <<DOT>> \o Slice(self.digits, 6, 8) \o <<DASH>>
            \o Slice(self.digits, 9, Len(self.digits)))

\* CPF_formatted with the length test written as "<"
CPF_formatted_TooShortOnly(self) ==
    IF Len(self.digits) < 11
    THEN Raise("InvalidCPFError",
               <<"CPF must have ", 11, " digits, got ", Len(self.digits)>>)
    ELSE Ok(Slice(self.digits, 0, 3) \o <<DOT>> \o Slice(self.digits, 3, 6)
            \o <<DOT>> \o Slice(self.digits, 6, 9) \o <<DASH>>
            \o Slice(self.digits, 9, Len(self.digits)))

CPF_formatted(self) ==
    IF Len(self.digits) # 11
    THEN Raise("InvalidCPFError",
               <<"CPF must have ", 11, " digits, got ", Len(self.digits)>>)
    ELSE Ok(Slice(self.digits, 0, 3) \o <<DOT>> \o Slice(self.digits, 3, 6)
            \o <<DOT>> \o Slice(self.digits, 6, 9) \o <<DASH>>
            \o Slice(self.digits, 9, Len(self.digits)))

\* weights (10 - i) for i in range(9) and (11 - i) for i in range(10)
CPF_weights_first == [i \in 1 .. 9 |-> 10 - (i - 1)]
CPF_weights_second == [i \in 1 .. 10 |-> 11 - (i - 1)]

\* CPF_validate_check_digits comparing the second check digit only
CPF_validate_check_digits_SecondOnly(self) ==
    LET sum_second == SumDigits(self.digits, 10, CPF_weights_second)
        tenth == Index(self.digits, 10)
        second_digit == IF (sum_second.val * 10) % 11 = 10 THEN 0
                        ELSE (sum_second.val * 10) % 11
    IN  IF sum_second.exc # "None" THEN sum_second
        ELSE IF tenth.exc # "None" THEN tenth
        ELSE IF ToInt(tenth.val).exc # "None" THEN ToInt(tenth.val)
        ELSE Ok(ToInt(tenth.val).val = second_digit)

\* CPF_validate_check_digits returning after the first check digit matches
CPF_validate_check_digits_FirstOnly(self) ==
    LET sum_first == SumDigits(self.digits, 9, CPF_weights_first)
        ninth == Index(self.digits, 9)
        first_digit == IF (sum_first.val * 10) % 11 = 10 THEN 0
                       ELSE (sum_first.val * 10) % 11
    IN  IF sum_first.exc # "None" THEN sum_first
        ELSE IF ninth.exc # "None" THEN ninth
        ELSE IF ToInt(ninth.val).exc # "None" THEN ToInt(ninth.val)
        ELSE Ok(ToInt(ninth.val).val = first_digit)

CPF_validate_check_digits(self) ==
    LET sum_first == SumDigits(self.digits, 9, CPF_weights_first)
        ninth == Index(self.digits, 9)
        sum_second == SumDigits(self.digits, 10, CPF_weights_second)
        tenth == Index(self.digits, 10)
        first_digit == IF (sum_first.val * 10) % 11 = 10 THEN 0
                       ELSE (sum_first.val * 10) % 11
        second_digit == IF (sum_second.val * 10) % 11 = 10 THEN 0
                        ELSE (sum_second.val * 10) % 11
    IN  IF sum_first.exc # "None" THEN sum_first
        ELSE IF ninth.exc # "None" THEN ninth
        ELSE IF ToInt(ninth.val).exc # "None" THEN ToInt(ninth.val)
        ELSE IF ToInt(ninth.val).val # first_digit
        THEN Ok(FALSE)
        ELSE IF sum_second.exc # "None" THEN sum_second
        ELSE IF tenth.exc # "None" THEN tenth
        ELSE IF ToInt(tenth.val).exc # "None" THEN ToInt(tenth.val)
        ELSE Ok(ToInt(tenth.val).val = second_digit)

\* CPF_is_valid without the length test
CPF_is_valid_NoLengthTest(self) ==
    LET head == Index(self.digits, 0)
    IN  IF head.exc # "None" THEN head
        ELSE IF self.digits = StrMul(head.val, 11) THEN Ok(FALSE)
        ELSE CPF_validate_check_digits(self)

\* CPF_is_valid without the test for eleven equal digits
CPF_is_valid_NoRepeatTest(self) ==
    IF Len(self.digits) # 11 THEN Ok(FALSE)
    ELSE CPF_validate_check_digits(self)

CPF_is_valid(self) ==
    IF Len(self.digits) # 11 THEN Ok(FALSE)
    ELSE LET head == Index(self.digits, 0)
         IN  IF head.exc # "None" THEN head
             ELSE IF self.digits = StrMul(head.val, 11) THEN Ok(FALSE)
             ELSE CPF_validate_check_digits(self)

\* CPF_validate checking the string as given, not cleaned
CPF_validate_Uncleaned(cpf) ==
    CPF_is_valid([kind |-> "CPF", original |-> cpf, digits |-> cpf])

CPF_validate(cpf) == CPF_is_valid(CPF_init(cpf))

\* CPF_generate without the replacement of 10 by 0
CPF_generate_KeepsTen(base_digits) ==
    LET sum_first == SumSeq([i \in 1 .. 9 |->
                                base_digits[i] * CPF_weights_first[i]])
        first_digit == (sum_first * 10) % 11
        with_first == Append(base_digits, first_digit)
        sum_second == SumSeq([i \in 1 .. 10 |->
                                with_first[i] * CPF_weights_second[i]])
        second_digit == (sum_second * 10) % 11
        with_second == Append(with_first, second_digit)
    IN  CPF_init(JoinStr(with_second))

\* base_digits is the list of 9 drawn integers
CPF_generate(base_digits) ==
    LET sum_first == SumSeq([i \in 1 .. 9 |->
                                base_digits[i] * CPF_weights_first[i]])
        first_digit == IF (sum_first * 10) % 11 = 10 THEN 0
                       ELSE (sum_first * 10) % 11
        with_first == Append(base_digits, first_digit)
        sum_second == SumSeq([i \in 1 .. 10 |->
                                with_first[i] * CPF_weights_second[i]])
        second_digit == IF (sum_second * 10) % 11 = 10 THEN 0
                        ELSE (sum_second * 10) % 11
        with_second == Append(with_first, second_digit)
    IN  CPF_init(JoinStr(with_second))

\* CPF_str catching the other kind's error
CPF_str_WrongExcept(self) ==
    IF CPF_formatted(self).exc = "InvalidCNPJError" THEN Ok(self.digits)
    ELSE CPF_formatted(self)

CPF_str(self) ==
    IF CPF_formatted(self).exc = "InvalidCPFError" THEN Ok(self.digits)
    ELSE CPF_formatted(self)

\* CPF_eq comparing the strings the documents were built from
\* f"CPF('{self._original}')"
CPF_repr(self) == <<67, 80, 70, 40, 39>> \o self.original \o <<39, 41>>

CPF_eq_ByOriginal(self, other) ==
    IF other.kind = "CPF" THEN self.original = other.original ELSE FALSE

CPF_eq(self, other) ==
    IF other.kind = "CPF" THEN self.digits = other.digits ELSE FALSE

CPF_hash(self) == StrHash(self.digits)

\* ------------------------------------------------------------------ CNPJ
\* re.sub(r"\D", "", cnpj)
CNPJ_clean(cnpj) == SelectSeq(cnpj, IsDecimal)

CNPJ_init(cnpj) ==
    [kind |-> "CNPJ", original |-> cnpj, digits |-> CNPJ_clean(cnpj)]

CNPJ_digits(self) == self.digits

CNPJ_formatted(self) ==
    IF Len(self.digits) # 14
    THEN Raise("InvalidCNPJError",
               <<"CNPJ must have ", 14, " digits, got ", Len(self.digits)>>)
    ELSE Ok(Slice(self.digits, 0, 2) \o <<DOT>> \o Slice(self.digits, 2, 5)
            \o <<DOT>> \o Slice(self.digits, 5, 8) \o <<SLASH>>
            \o Slice(self.digits, 8, 12) \o <<DASH>>
            \o Slice(self.digits, 12, Len(self.digits)))

CNPJ_weights_first == <<5, 4, 3, 2, 9, 8, 7, 6, 5, 4, 3, 2>>
CNPJ_weights_second == <<6, 5, 4, 3, 2, 9, 8, 7, 6, 5, 4, 3, 2>>

CNPJ_validate_check_digits(self) ==
    LET sum_first == SumDigits(self.digits, 12, CNPJ_weights_first)
        twelfth == Index(self.digits, 12)
        sum_second == SumDigits(self.digits, 13, CNPJ_weights_second)
        thirteenth == Index(self.digits, 13)
        first_digit == IF sum_first.val % 11 < 2 THEN 0
                       ELSE 11 - (sum_first.val % 11)
        second_digit == IF sum_second.val % 11 < 2 THEN 0
                        ELSE 11 - (sum_second.val % 11)
    IN  IF sum_first.exc # "None" THEN sum_first
        ELSE IF twelfth.exc # "None" THEN twelfth
        ELSE IF ToInt(twelfth.val).exc # "None" THEN ToInt(twelfth.val)
        ELSE IF ToInt(twelfth.val).val # first_digit
        THEN Ok(FALSE)
        ELSE IF sum_second.exc # "None" THEN sum_second
        ELSE IF thirteenth.exc # "None" THEN thirteenth
        ELSE IF ToInt(thirteenth.val).exc # "None" THEN ToInt(thirteenth.val)
        ELSE Ok(ToInt(thirteenth.val).val = second_digit)

CNPJ_is_valid(self) ==
    IF Len(self.digits) # 14 THEN Ok(FALSE)
    ELSE LET head == Index(self.digits, 0)
         IN  IF head.exc # "None" THEN head
             ELSE IF self.digits = StrMul(head.val, 14) THEN Ok(FALSE)
             ELSE CNPJ_validate_check_digits(self)

CNPJ_validate(cnpj) == CNPJ_is_valid(CNPJ_init(cnpj))

\* base_digits is the list of 12 drawn integers
CNPJ_generate(base_digits) ==
    LET sum_first == SumSeq([i \in 1 .. 12 |->
                                base_digits[i] * CNPJ_weights_first[i]])
        first_digit == IF sum_first % 11 < 2 THEN 0 ELSE 11 - (sum_first % 11)
        with_first == Append(base_digits, first_digit)
        sum_second == SumSeq([i \in 1 .. 13 |->
                                with_first[i] * CNPJ_weights_second[i]])
        second_digit == IF sum_second % 11 < 2 THEN 0
                        ELSE 11 - (sum_second % 11)
        with_second == Append(with_first, second_digit)
    IN  CNPJ_init(JoinStr(with_second))

CNPJ_str(self) ==
    IF CNPJ_formatted(self).exc = "InvalidCNPJError" THEN Ok(self.digits)
    ELSE CNPJ_formatted(self)

\* f"CNPJ('{self._original}')"
CNPJ_repr(self) == <<67, 78, 80, 74, 40, 39>> \o self.original \o <<39, 41>>

CNPJ_eq(self, other) ==
    IF other.kind = "CNPJ" THEN self.digits = other.digits ELSE FALSE

CNPJ_hash(self) == StrHash(self.digits)

\* ------------------------------------------------- dispatch on the class
Kinds == {"CPF", "CNPJ"}

\* total_length and payload_length of a kind
TotalLength(k) == IF k = "CPF" THEN 11 ELSE 14
PayloadLength(k) == TotalLength(k) - 2

New(k, s) == IF k = "CPF" THEN CPF_init(s) ELSE CNPJ_init(s)
digits(d) == IF d.kind = "CPF" THEN CPF_digits(d) ELSE CNPJ_digits(d)
formatted(d) == IF d.kind = "CPF" THEN CPF_formatted(d) ELSE CNPJ_formatted(d)
is_valid(d) == IF d.kind = "CPF" THEN CPF_is_valid(d) ELSE CNPJ_is_valid(d)
validate(k, s) == IF k = "CPF" THEN CPF_validate(s) ELSE CNPJ_validate(s)
generate(k, p) == IF k = "CPF" THEN CPF_generate(p) ELSE CNPJ_generate(p)
str(d) == IF d.kind = "CPF" THEN CPF_str(d) ELSE CNPJ_str(d)
repr(d) == IF d.kind = "CPF" THEN CPF_repr(d) ELSE CNPJ_repr(d)
eq(a, b) == IF a.kind = "CPF" THEN CPF_eq(a, b) ELSE CNPJ_eq(a, b)
hash(d) == IF d.kind = "CPF" THEN CPF_hash(d) ELSE CNPJ_hash(d)
validate_check_digits(d) ==
    IF d.kind = "CPF" THEN CPF_validate_check_digits(d)
    ELSE CNPJ_validate_check_digits(d)

\* ------------------------------------------------------------- the inputs
\* digit strings the tests use, as lists of digit values
KnownDocs(k) ==
    IF k = "CPF"
    THEN {<<1, 1, 1, 4, 4, 4, 7, 7, 7, 3, 5>>,
          <<1, 1, 1, 4, 4, 4, 7, 7, 7, 3, 6>>,
          <<2, 3, 1, 0, 0, 2, 9, 9, 9, 0, 0>>}
         \cup {[i \in 1 .. 11 |-> c] : c \in 0 .. 9}
    ELSE {<<1, 1, 2, 2, 2, 3, 3, 3, 0, 0, 0, 1, 8, 1>>,
          <<1, 1, 2, 2, 2, 3, 3, 3, 0, 0, 0, 1, 8, 2>>,
          <<1, 1, 4, 4, 4, 7, 7, 7, 0, 0, 0, 1, 6, 1>>,
          <<3, 4, 0, 2, 8, 3, 1, 6, 0, 0, 0, 1, 0, 3>>}
         \cup {[i \in 1 .. 14 |-> c] : c \in 0 .. 9}

\* positions after which the kind's format puts a separator
SepPositions(k) == IF k = "CPF" THEN {3, 6, 9} ELSE {2, 5, 8, 12}

RECURSIVE Flatten(_)
Flatten(ss) == IF ss = <<>> THEN <<>> ELSE ss[1] \o Flatten(Tail(ss))

\* the ways a caller may write a list of digit values ds as a string
Styles == {"plain", "spaces", "letters", "arabic", "fullwidth", "short",
           "long", "superscript"}

Decorate(k, ds, style) ==
    LET plain == [i \in 1 .. Len(ds) |-> ZERO + ds[i]]
        with(c) == Flatten([i \in 1 .. Len(ds) |->
                      IF i \in SepPositions(k) THEN <<plain[i], c>>
                      ELSE <<plain[i]>>])
    IN  CASE style = "plain" -> plain
          [] style = "spaces" -> with(SPACE)
          [] style = "letters" -> with(LETTER)
          [] style = "arabic" -> [i \in 1 .. Len(ds) |-> ARABIC0 + ds[i]]
          [] style = "fullwidth" -> <<FULLWIDTH0 + ds[1]>> \o Tail(plain)
          [] style = "short" -> SubSeq(plain, 1, Len(ds) - 1)
          [] style = "long" -> Append(plain, ZERO)
          [] style = "superscript" -> <<SUPER2>> \o plain

Alphabet == {ZERO, ZERO + 1, DOT, LETTER, ARABIC0 + 1, SUPER2}

RECURSIVE StringsOfLen(_)
StringsOfLen(n) ==
    IF n = 0 THEN {<<>>}
    ELSE {Append(t, c) : t \in StringsOfLen(n - 1), c \in Alphabet}

ShortStrings == UNION {StringsOfLen(n) : n \in 0 .. MaxLen}

\* the strings a document is constructed from
Inputs(k) == ShortStrings
             \cup {Decorate(k, ds, st) : ds \in KnownDocs(k), st \in Styles}

\* the payloads random.randint draws: a payload of the tests, or ten equal
\* digits, with at most one of the leading positions redrawn
Draws(k) ==
    LET bases == {SubSeq(ds, 1, PayloadLength(k)) : ds \in KnownDocs(k)}
    IN  bases \cup {[b EXCEPT ![p] = v] :
                      b \in bases, p \in 1 .. VaryPositions, v \in 0 .. 9}

\* --------------------------------------------------------------- the state
\* doc, other: two document objects (NoDoc: not constructed yet)
\* base_digits: the payload the last generate() drew
\* ret: the last call, [op, arg, exc, val]
\* first: history of the calls, the first call made on the documents; it
\*        is kept from NoCall on, and not kept while it is Untracked
VARIABLES doc, other, base_digits, ret, first

vars == <<doc, other, base_digits, ret, first>>

NoDoc == [kind |-> "none", original |-> <<>>, digits |-> <<>>]

Call(op, arg, r) == [op |-> op, arg |-> arg, exc |-> r.exc, val |-> r.val]

NoCall == Call("none", <<>>, Ok(<<>>))
Untracked == Call("untracked", <<>>, Ok(<<>>))

\* the history after the call c
Record(c) == IF first.op = "none" THEN c ELSE first

Init == /\ doc = NoDoc
        /\ other = NoDoc
        /\ base_digits = <<>>
        /\ ret = NoCall
        /\ first = Untracked

\* doc = CPF(s) or doc = CNPJ(s); a name is bound once
Construct(k, s) ==
    /\ doc = NoDoc
    /\ doc' = New(k, s)
    /\ other' = NoDoc
    /\ base_digits' = <<>>
    /\ ret' = Call("init", s, Ok(<<>>))
    /\ UNCHANGED first

\* doc = CPF.generate() or doc = CNPJ.generate()
Generate(k, p) ==
    /\ doc = NoDoc
    /\ doc' = generate(k, p)
    /\ other' = NoDoc
    /\ base_digits' = p
    /\ ret' = Call("generate", <<>>, Ok(<<>>))
    /\ UNCHANGED first

\* the strings a second document is constructed from
OtherInputs ==
    {doc.original, doc.digits, Append(doc.digits, LETTER),
     SubSeq(doc.digits, 1, Len(doc.digits) - 1)}
    \cup (IF formatted(doc).exc = "None" THEN {formatted(doc).val} ELSE {})

ConstructOther(k, s) ==
    /\ doc # NoDoc
    /\ other = NoDoc
    /\ other' = New(k, s)
    /\ ret' = Call("init", s, Ok(<<>>))
    /\ UNCHANGED first
    /\ UNCHANGED <<doc, base_digits>>

Digits ==
    /\ doc # NoDoc
    /\ ret' = Call("digits", <<>>, Ok(digits(doc)))
    /\ first' = Record(ret')
    /\ UNCHANGED <<doc, other, base_digits>>

\* IsValid padding the digits with zeros to eleven before the check
IsValid_ZeroPads ==
    /\ doc # NoDoc
    /\ doc' = [doc EXCEPT !.digits =
                  [i \in 1 .. (11 - Len(doc.digits)) |-> ZERO] \o doc.digits]
    /\ ret' = Call("is_valid", <<>>, is_valid(doc'))
    /\ first' = Record(ret')
    /\ UNCHANGED <<other, base_digits>>

IsValid ==
    /\ doc # NoDoc
    /\ ret' = Call("is_valid", <<>>, is_valid(doc))
    /\ first' = Record(ret')
    /\ UNCHANGED <<doc, other, base_digits>>

Validate(k, s) ==
    /\ doc # NoDoc
    /\ ret' = Call("validate", <<k, s>>, validate(k, s))
    /\ first' = Record(ret')
    /\ UNCHANGED <<doc, other, base_digits>>

Formatted ==
    /\ doc # NoDoc
    /\ ret' = Call("formatted", <<>>, formatted(doc))
    /\ first' = Record(ret')
    /\ UNCHANGED <<doc, other, base_digits>>

Str ==
    /\ doc # NoDoc
    /\ ret' = Call("str", <<>>, str(doc))
    /\ first' = Record(ret')
    /\ UNCHANGED <<doc, other, base_digits>>

Eq ==
    /\ doc # NoDoc
    /\ other # NoDoc
    /\ ret' = Call("eq", <<>>, Ok(eq(doc, other)))
    /\ first' = Record(ret')
    /\ UNCHANGED <<doc, other, base_digits>>

Repr ==
    /\ doc # NoDoc
    /\ ret' = Call("repr", <<>>, Ok(repr(doc)))
    /\ first' = Record(ret')
    /\ UNCHANGED <<doc, other, base_digits>>

Hash ==
    /\ doc # NoDoc
    /\ ret' = Call("hash", <<>>, Ok(hash(doc)))
    /\ first' = Record(ret')
    /\ UNCHANGED <<doc, other, base_digits>>

Next ==
    \/ \E k \in Kinds : \E s \in Inputs(k) : Construct(k, s)
    \/ \E k \in Kinds : \E p \in Draws(k) : Generate(k, p)
    \/ \E k \in Kinds : \E s \in OtherInputs : ConstructOther(k, s)
    \/ Digits
    \/ IsValid
    \/ \E k \in Kinds : Validate(k, doc.original)
    \/ Formatted
    \/ Str
    \/ Eq
    \/ Hash
    \/ Repr

Spec == Init /\ [][Next]_vars

\* ------------------------------------------ transcriptions of a document
\* the strings the transcription tests construct a first document from
EditInputs(k) ==
    {Decorate(k, ds, st) : ds \in KnownDocs(k), st \in {"plain", "arabic"}}

\* other = the digits of doc with the digit at position p (from 0) typed
\* as another digit v, as "111.444.777-36" is of "111.444.777-35"
Retype(p, v) ==
    /\ doc # NoDoc
    /\ other = NoDoc
    /\ p < Len(doc.digits)
    /\ v # DecimalValue(doc.digits[p + 1])
    /\ other' = New(doc.kind, [doc.digits EXCEPT ![p + 1] = ZERO + v])
    /\ ret' = Call("init", other'.original, Ok(<<>>))
    /\ UNCHANGED first
    /\ UNCHANGED <<doc, base_digits>>

\* other = the digits of doc with both trailing digits typed as other
\* digits v1 and v2
RetypeCheckDigits(v1, v2) ==
    LET n == Len(doc.digits)
    IN  /\ doc # NoDoc
        /\ other = NoDoc
        /\ n >= 2
        /\ v1 # DecimalValue(doc.digits[n - 1])
        /\ v2 # DecimalValue(doc.digits[n])
        /\ other' = New(doc.kind, [doc.digits EXCEPT ![n - 1] = ZERO + v1,
                                                     ![n] = ZERO + v2])
        /\ ret' = Call("init", other'.original, Ok(<<>>))
        /\ UNCHANGED first
        /\ UNCHANGED <<doc, base_digits>>

\* other.is_valid()
IsValidOther ==
    /\ other # NoDoc
    /\ ret' = Call("other.is_valid", <<>>, is_valid(other))
    /\ first' = Record(ret')
    /\ UNCHANGED <<doc, other, base_digits>>

NextEdit ==
    \/ \E k \in Kinds : \E s \in EditInputs(k) : Construct(k, s)
    \/ \E k \in Kinds : \E p \in Draws(k) : Generate(k, p)
    \/ \E p \in 0 .. 13 : \E v \in 0 .. 9 : Retype(p, v)
    \/ \E v1 \in 0 .. 9 : \E v2 \in 0 .. 9 : RetypeCheckDigits(v1, v2)
    \/ IsValidOther

SpecEdit == Init /\ [][NextEdit]_vars

\* ------------------------------------------------- readers of a document
\* the strings the shared documents are constructed from
ReaderInputs(k) ==
    {<<>>} \cup {Decorate(k, ds, st) :
                    ds \in KnownDocs(k), st \in {"spaces", "short"}}

\* two documents are constructed, then only read
InitReaders ==
    \E k \in Kinds : \E s \in ReaderInputs(k) :
        /\ doc = New(k, s)
        /\ other \in {New(k, s), New(k, digits(New(k, s))), New(k, <<>>)}
        /\ base_digits = <<>>
        /\ ret = NoCall
        /\ first = NoCall

\* the readers' calls, in any order and any number of times
NextReaders ==
    \/ Digits
    \/ IsValid
    \/ Formatted
    \/ Str
    \/ Repr
    \/ Eq
    \/ Hash

SpecReaders == InitReaders /\ [][NextReaders]_vars

\* ------------------------------------------------------------- properties
IsAsciiDigit(c) == c \in AsciiDigits

\* the string of n copies of the digit c
Repeated(c, n) == [i \in 1 .. n |-> ZERO + c]

\* C1: for both kinds and every payload draw, the document returned by
\* generate() is valid: is_valid() on it returns True.
C1_GenerateAlwaysValid ==
    (base_digits # <<>> /\ ret.op = "is_valid")
        => (ret.exc = "None" /\ ret.val = TRUE)

\* C2: for every input string, the digits of the document built from it
\* contain only '0'..'9' and are exactly the characters '0'..'9' of the
\* input, in order, every other character removed.
C2_DigitsAreAsciiDigitsOfInput ==
    (doc # NoDoc /\ ret.op = "digits")
        => /\ \A i \in 1 .. Len(ret.val) : ret.val[i] \in AsciiDigits
           /\ ret.val = SelectSeq(doc.original, IsAsciiDigit)

\* C3: for both kinds and every digit c, the document whose digits are
\* total_length copies of c is not valid, whether or not its check digits
\* match the checksum formula.
C3_RepeatedDigitNeverValid ==
    \A c \in 0 .. 9 :
        (/\ doc # NoDoc
         /\ digits(doc) = Repeated(c, TotalLength(doc.kind))
         /\ ret.op = "is_valid")
            => (ret.exc = "None" /\ ret.val = FALSE)

\* eleven equal digits whose check digits match, found not valid
C3_Witness ==
    /\ doc.kind = "CPF"
    /\ digits(doc) = Repeated(1, 11)
    /\ validate_check_digits(doc) = Ok(TRUE)
    /\ ret.op = "is_valid"
    /\ ret.val = FALSE

\* C4: two documents of the same kind are equal if and only if their digits
\* are equal, whatever strings they were built from, and equal documents
\* have equal hashes.
C4_EqualIffSameDigits ==
    (/\ doc # NoDoc
     /\ other # NoDoc
     /\ other.kind = doc.kind
     /\ ret.op = "eq")
        => /\ ret.val <=> (digits(doc) = digits(other))
           /\ ret.val => (hash(doc) = hash(other))

\* two equal documents built from different strings
C4_Witness ==
    /\ doc # NoDoc
    /\ other.kind = doc.kind
    /\ other.original # doc.original
    /\ ret.op = "eq"
    /\ ret.val = TRUE

\* the kind's format, 0 standing for a digit position
Template(k) ==
    IF k = "CPF"
    THEN <<0, 0, 0, DOT, 0, 0, 0, DOT, 0, 0, 0, DASH, 0, 0>>
    ELSE <<0, 0, DOT, 0, 0, 0, DOT, 0, 0, 0, SLASH, 0, 0, 0, 0, DASH, 0, 0>>

IsDigitPosition(k, i) == Template(k)[i] = 0

\* text is ds with the separators of kind k inserted
FitsTemplate(k, text, ds) ==
    LET t == Template(k)
        at == SelectSeq([i \in 1 .. Len(t) |-> i],
                        LAMBDA i : IsDigitPosition(k, i))
    IN  /\ Len(text) = Len(t)
        /\ \A i \in 1 .. Len(t) : t[i] # 0 => text[i] = t[i]
        /\ ds = [j \in 1 .. Len(at) |-> text[at[j]]]

ErrorOf(k) == IF k = "CPF" THEN "InvalidCPFError" ELSE "InvalidCNPJError"

\* C5: formatted fails with the kind's error exactly when the number of
\* digits differs from total_length, the message stating the expected and
\* the actual length; otherwise it returns the digits with the kind's
\* separators inserted.
C5_FormattedFailsIffWrongLength ==
    (doc # NoDoc /\ ret.op = "formatted")
        => LET n == Len(digits(doc))
               t == TotalLength(doc.kind)
           IN  /\ (ret.exc # "None") <=> (n # t)
               /\ n # t => /\ ret.exc = ErrorOf(doc.kind)
                           /\ ret.val[2] = t
                           /\ ret.val[4] = n
               /\ n = t => FitsTemplate(doc.kind, ret.val, digits(doc))

\* formatted raised on a document with one digit too many
C5_Witness ==
    /\ ret.op = "formatted"
    /\ ret.exc = "InvalidCPFError"
    /\ Len(digits(doc)) = 12

\* C6: construction, is_valid() and validate() never raise; an input whose
\* cleaned digits have a length other than total_length, the empty string
\* included, yields False.
C6_ValidityNeverRaises ==
    /\ (doc # NoDoc /\ ret.op = "init") => ret.exc = "None"
    /\ (doc # NoDoc /\ ret.op = "is_valid")
          => /\ ret.exc = "None"
             /\ Len(digits(doc)) # TotalLength(doc.kind) => ret.val = FALSE
    /\ ret.op = "validate"
          => /\ ret.exc = "None"
             /\ Len(digits(New(ret.arg[1], ret.arg[2])))
                    # TotalLength(ret.arg[1]) => ret.val = FALSE

\* is_valid() returned False on the document built from the empty string
C6_Witness ==
    /\ doc # NoDoc
    /\ doc.original = <<>>
    /\ ret.op = "is_valid"
    /\ ret.exc = "None"
    /\ ret.val = FALSE

C8_ValidateIsConstructThenIsValid ==
    ret.op = "validate"
        => LET d == New(ret.arg[1], ret.arg[2])
           IN  /\ ret.exc = is_valid(d).exc
               /\ ret.val = is_valid(d).val

\* validate returned True on a string with separators
C8_Witness ==
    /\ ret.op = "validate"
    /\ ret.val = TRUE
    /\ ret.arg[2] # digits(New(ret.arg[1], ret.arg[2]))

\* C9: for every valid document d, the document of the same kind built from
\* formatted(d) has the digits of d, is equal to d and formats to the same
\* string.
C9_FormatThenCleanRoundTrip ==
    (/\ doc # NoDoc
     /\ other.kind = doc.kind
     /\ is_valid(doc) = Ok(TRUE)
     /\ other.original = formatted(doc).val)
        => /\ digits(other) = digits(doc)
           /\ eq(other, doc)
           /\ formatted(other) = formatted(doc)

\* a valid document written without separators, and the document built
\* from its formatted string
C9_Witness ==
    /\ doc # NoDoc
    /\ other.kind = doc.kind
    /\ is_valid(doc) = Ok(TRUE)
    /\ doc.original = digits(doc)
    /\ other.original = formatted(doc).val

\* C10: generate() returns a document of total_length digits: the drawn
\* payload unchanged, then two check digits, each one of '0'..'9', that
\* the kind's check-digit formula accepts.
C10_GenerateAppendsCheckDigits ==
    ret.op = "generate"
        => LET k == doc.kind
               d == digits(doc)
               n == PayloadLength(k)
           IN  /\ Len(d) = TotalLength(k)
               /\ Len(base_digits) = n
               /\ SubSeq(d, 1, n) = [i \in 1 .. n |-> ZERO + base_digits[i]]
               /\ \A i \in (n + 1) .. Len(d) : d[i] \in AsciiDigits
               /\ validate_check_digits(doc) = Ok(TRUE)

\* a generated CPF whose first check digit is the 10 replaced by 0
C10_Witness ==
    /\ ret.op = "generate"
    /\ doc.kind = "CPF"
    /\ Len(base_digits) = 9
    /\ (SumSeq([i \in 1 .. 9 |-> base_digits[i] * (11 - i)]) * 10) % 11 = 10
    /\ digits(doc)[10] = ZERO

\* the values of the digits of a string of decimal digits
DigitValues(d) == [i \in 1 .. Len(d) |-> DecimalValue(d[i])]

\* the weighted sum of the first n values of v, position i (from 0)
\* weighted by w[i + 1]
WeightedSum(v, n, w) == SumSeq([i \in 1 .. n |-> v[i] * w[i]])

\* the stated check digit of kind k over the first n values of v:
\* CPF weights (n + 1 - i), digit (sum * 10) mod 11 with 10 mapped to 0;
\* CNPJ the weight tables, digit 0 if sum mod 11 < 2 else 11 - sum mod 11
StatedCheckDigit(k, v, n) ==
    IF k = "CPF"
    THEN LET sum == WeightedSum(v, n, [i \in 1 .. n |-> (n + 1) - (i - 1)])
         IN  IF (sum * 10) % 11 = 10 THEN 0 ELSE (sum * 10) % 11
    ELSE LET w == IF n = 12 THEN <<5, 4, 3, 2, 9, 8, 7, 6, 5, 4, 3, 2>>
                  ELSE <<6, 5, 4, 3, 2, 9, 8, 7, 6, 5, 4, 3, 2>>
             sum == WeightedSum(v, n, w)
         IN  IF sum % 11 < 2 THEN 0 ELSE 11 - (sum % 11)

\* the three conditions of validity
HasTotalLength(d) == Len(digits(d)) = TotalLength(d.kind)
NotAllSame(d) == \E i \in 1 .. Len(digits(d)) : digits(d)[i] # digits(d)[1]
CheckDigitsMatch(d) ==
    LET v == DigitValues(digits(d))
        n == PayloadLength(d.kind)
    IN  /\ v[n + 1] = StatedCheckDigit(d.kind, v, n)
        /\ v[n + 2] = StatedCheckDigit(d.kind, v, n + 1)

IsTranscription ==
    /\ doc # NoDoc
    /\ other.kind = doc.kind
    /\ Len(digits(other)) = Len(digits(doc))

\* the positions (from 0) where the digit of other has another value than
\* the digit of doc
DiffPositions ==
    {p \in 0 .. (Len(digits(doc)) - 1) :
        DecimalValue(digits(other)[p + 1]) # DecimalValue(digits(doc)[p + 1])}

\* the positions (from 0) of the two check digits of doc
CheckPositions == {PayloadLength(doc.kind), PayloadLength(doc.kind) + 1}

\* C12: the check digits are determined by the payload: when d is valid and
\* d' has the payload of d and another first check digit, another second
\* check digit, or both, d' is not valid.
C12_CheckDigitsDeterminedByPayload ==
    (/\ ret.op = "other.is_valid"
     /\ IsTranscription
     /\ DiffPositions # {}
     /\ DiffPositions \subseteq CheckPositions
     /\ is_valid(doc) = Ok(TRUE))
        => (ret.exc = "None" /\ ret.val = FALSE)

\* a valid document and its copy with both check digits retyped, found
\* not valid
C12_Witness ==
    /\ ret.op = "other.is_valid"
    /\ ret.val = FALSE
    /\ IsTranscription
    /\ DiffPositions = CheckPositions
    /\ is_valid(doc) = Ok(TRUE)

\* C14, as stated: when d is valid and d' is d with the digit at exactly
\* one position, payload or check digit, replaced by another digit, d' is
\* not valid.
C14_EverySingleDigitErrorDetected ==
    (/\ ret.op = "other.is_valid"
     /\ IsTranscription
     /\ Cardinality(DiffPositions) = 1
     /\ is_valid(doc) = Ok(TRUE))
        => (ret.exc = "None" /\ ret.val = FALSE)

\* the value of the first check digit of doc
FirstCheckDigit == DecimalValue(digits(doc)[PayloadLength(doc.kind) + 1])

\* C14, amended: when d is valid and d' is d with the digit at exactly one
\* position replaced by another digit, d' is not valid provided the
\* position is one of the two check digits or the first check digit of d
\* is not 0.
C14_SingleDigitErrorDetectedUnlessZeroCheckDigit ==
    (/\ ret.op = "other.is_valid"
     /\ IsTranscription
     /\ Cardinality(DiffPositions) = 1
     /\ is_valid(doc) = Ok(TRUE)
     /\ DiffPositions \subseteq CheckPositions \/ FirstCheckDigit # 0)
        => (ret.exc = "None" /\ ret.val = FALSE)

\* a valid document with a first check digit other than 0 and its copy
\* with one payload digit retyped, found not valid
C14_Witness ==
    /\ ret.op = "other.is_valid"
    /\ ret.val = FALSE
    /\ IsTranscription
    /\ Cardinality(DiffPositions) = 1
    /\ DiffPositions \cap CheckPositions = {}
    /\ is_valid(doc) = Ok(TRUE)
    /\ FirstCheckDigit # 0

\* C13: a document is immutable after construction: through any sequence
\* of digits, is_valid, formatted, display, repr, equality and hash,
\* failing calls of formatted included, its digits and its original string
\* are unchanged, and a repeated operation returns what it returned first.
C13_ReadsLeaveDocumentUnchanged ==
    [][/\ doc' = doc
       /\ other' = other
       /\ (first.op # "none" /\ ret'.op = first.op)
             => (ret'.exc = first.exc /\ ret'.val = first.val)]_vars

\* formatted failed first, and a later digits call returned the digits
C13_Witness ==
    /\ first.op = "formatted"
    /\ first.exc = ErrorOf(doc.kind)
    /\ ret.op = "digits"
    /\ ret.val = doc.digits
    /\ doc.digits # <<>>

====
